---- MODULE Spec2Model ----
(***************************************************************************)
(* Model of first_cycling_api/race/race.py: the text normalizer, the fuzzy *)
(* race-id resolver search_race_id, and the Race / RaceEdition facades.    *)
(*                                                                         *)
(* A Python str is a sequence of one-character strings.  None is the       *)
(* record [t |-> "None"]; where a value may be None or something else, the *)
(* something else is tagged too (IntV, Str).                                *)
(***************************************************************************)
EXTENDS Integers, Sequences, FiniteSets, TLC

VARIABLES
    text,       \* normalizer: the input string
    norm1,      \* normalizer: normalize(text), once computed
    norm2,      \* normalizer: normalize(normalize(text)), once computed
    npc,        \* normalizer: "start", "once", "twice"
    query,      \* the search query string
    html,       \* the search page: its <a href=...> elements in document order
    call,       \* the last call: op, recv, args, locals, fetches, prints, outcome
    race,       \* the Race instance: its field ID
    editions,   \* the RaceEdition instances made so far: fields ID and year
    born        \* each instance's fields as its constructor set them

nvars == <<text, norm1, norm2, npc>>
svars == <<query, html, call>>
fvars == <<race, editions, born>>
vars == <<text, norm1, norm2, npc, query, html, call, race, editions, born>>

None == [t |-> "None"]
IntV(v) == [t |-> "int", v |-> v]
Str(cs) == [t |-> "str", v |-> cs]

\* ------------------------------------------------------------------ bounds
MaxLen == 4

\* The characters the normalizer is exercised on: an upper-case and a
\* lower-case letter, the hyphen, and two whitespace characters.
NormAlphabet == {"A", "b", "-", " ", "\t"}

RECURSIVE StringsUpTo(_, _)
StringsUpTo(alphabet, n) ==
    IF n = 0 THEN {<<>>}
    ELSE LET shorter == StringsUpTo(alphabet, n - 1)
         IN  shorter \cup {Append(w, c) : w \in {x \in shorter : Len(x) = n - 1}, c \in alphabet}

\* ------------------------------------------------------------- normalize
\* str.lower() on one character
lower_char(c) ==
    CASE c = "A" -> "a"
      [] c = "B" -> "b"
      [] c = "M" -> "m"
      [] OTHER -> c

\* text.lower()
lower(s) == [i \in 1..Len(s) |-> lower_char(s[i])]

\* re.sub(r'[-]', ' ', text)
sub_hyphen(s) == [i \in 1..Len(s) |-> IF s[i] = "-" THEN " " ELSE s[i]]

\* the characters \s matches and str.strip() strips
IsSpace(c) == c \in {" ", "\t", "\n"}

RECURSIVE lstrip(_)
lstrip(s) ==
    IF s # <<>> /\ IsSpace(Head(s)) THEN lstrip(Tail(s)) ELSE s

RECURSIVE rstrip(_)
rstrip(s) ==
    IF s # <<>> /\ IsSpace(s[Len(s)]) THEN rstrip(SubSeq(s, 1, Len(s) - 1)) ELSE s

\* text.strip()
strip(s) == rstrip(lstrip(s))

\* re.sub(r'\s+', ' ', text): every maximal run of whitespace becomes one space
RECURSIVE sub_spaces(_)
sub_spaces(s) ==
    IF s = <<>> THEN <<>>
    ELSE IF IsSpace(Head(s)) THEN <<" ">> \o sub_spaces(lstrip(s))
    ELSE <<Head(s)>> \o sub_spaces(Tail(s))

\* Mutant: the whitespace runs are collapsed before the hyphens are replaced.
normalize_swapped(s) == strip(sub_hyphen(sub_spaces(lower(s))))

normalize(s) == strip(sub_spaces(sub_hyphen(lower(s))))

\* ------------------------------------------------- normalizer specification
InitNorm ==
    /\ text \in StringsUpTo(NormAlphabet, MaxLen)
    /\ norm1 = None
    /\ norm2 = None
    /\ npc = "start"
    /\ query = <<>>
    /\ html = <<>>
    /\ call = None
    /\ race = None
    /\ editions = <<>>
    /\ born = None

NormalizeOnce ==
    /\ npc = "start"
    /\ norm1' = Str(normalize(text))
    /\ npc' = "once"
    /\ UNCHANGED <<text, norm2>>
    /\ UNCHANGED svars
    /\ UNCHANGED fvars

NormalizeTwice ==
    /\ npc = "once"
    /\ norm2' = Str(normalize(norm1.v))
    /\ npc' = "twice"
    /\ UNCHANGED <<text, norm1>>
    /\ UNCHANGED svars
    /\ UNCHANGED fvars

NextNorm == NormalizeOnce \/ NormalizeTwice

SpecNorm == InitNorm /\ [][NextNorm]_vars

\* C5: normalize is idempotent: normalizing an already normalized string
\* (the empty string and strings of only hyphens and whitespace included)
\* gives the same string again.
C5_NormalizeIdempotent ==
    npc = "twice" => norm2 = norm1

\* C5 witness: a string of only hyphens and whitespace was normalized twice,
\* and the first normalization changed it.
C5_Witness ==
    /\ npc = "twice"
    /\ Len(text) >= 2
    /\ \A i \in 1..Len(text) : text[i] = "-" \/ IsSpace(text[i])
    /\ norm1.v # text

\* ----------------------------------------------------- search_race_id
\* difflib.SequenceMatcher(None, a, b): positions are 0-based and ranges
\* half-open as in Python, so a[i] of Python is a[i + 1] here.
\* The matching blocks <<i, j, k>> (a[i:i+k] == b[j:j+k], k >= 1) inside
\* a[alo:ahi] and b[blo:bhi].
matching_blocks(a, b, alo, ahi, blo, bhi) ==
    {blk \in (alo..(ahi - 1)) \X (blo..(bhi - 1)) \X (1..(ahi - alo)) :
        /\ blk[1] + blk[3] <= ahi
        /\ blk[2] + blk[3] <= bhi
        /\ \A d \in 0..(blk[3] - 1) : a[blk[1] + d + 1] = b[blk[2] + d + 1]}

\* find_longest_match: the longest block; of those, the one starting
\* earliest in a; of those, the one starting earliest in b.
find_longest_match(a, b, alo, ahi, blo, bhi) ==
    LET blocks == matching_blocks(a, b, alo, ahi, blo, bhi)
        before(x, y) ==
            \/ x[3] > y[3]
            \/ x[3] = y[3] /\ x[1] < y[1]
            \/ x[3] = y[3] /\ x[1] = y[1] /\ x[2] <= y[2]
    IN  IF blocks = {} THEN <<alo, blo, 0>>
        ELSE CHOOSE x \in blocks : \A y \in blocks : before(x, y)

\* get_matching_blocks, summed: the longest match, then the same to its left
\* and to its right.
RECURSIVE matches_count(_, _, _, _, _, _)
matches_count(a, b, alo, ahi, blo, bhi) ==
    LET m == find_longest_match(a, b, alo, ahi, blo, bhi)
    IN  IF m[3] = 0 THEN 0
        ELSE m[3] + matches_count(a, b, alo, m[1], blo, m[2])
                  + matches_count(a, b, m[1] + m[3], ahi, m[2] + m[3], bhi)

\* SequenceMatcher.ratio(): 2.0 * matches / (len(a) + len(b)), and 1.0 when
\* both are empty.  A ratio is the fraction <<numerator, denominator>>.
ratio(a, b) ==
    IF Len(a) + Len(b) = 0 THEN <<1, 1>>
    ELSE <<2 * matches_count(a, b, 0, Len(a), 0, Len(b)), Len(a) + Len(b)>>

\* Comparisons of the fractions x and y.  The code compares floats: the
\* division is correctly rounded, so for strings this short two ratios, or a
\* ratio and a threshold literal, compare as the exact fractions do.
ratio_ge(x, y) == x[1] * y[2] >= y[1] * x[2]
ratio_gt(x, y) == x[1] * y[2] > y[1] * x[2]
ratio_eq(x, y) == x[1] * y[2] = y[1] * x[2]

\* the literal text of the pattern race\.php\?r=
RacePhp == <<"r", "a", "c", "e", ".", "p", "h", "p", "?", "r", "=">>

\* whether the literal lit occurs in s at (1-based) position i
occurs_at(lit, s, i) ==
    /\ i + Len(lit) - 1 <= Len(s)
    /\ SubSeq(s, i, i + Len(lit) - 1) = lit

\* re.compile(r"race\.php\?r=").search(href) finds a match
href_matches(href) == \E i \in 1..Len(href) : occurs_at(RacePhp, href, i)

Digits == <<"0", "1", "2", "3", "4", "5", "6", "7", "8", "9">>
IsDigit(c) == \E d \in 1..10 : Digits[d] = c
digit_value(c) == (CHOOSE d \in 1..10 : Digits[d] = c) - 1

\* int(group): the value of a run of decimal digits
RECURSIVE int_of(_)
int_of(ds) ==
    IF ds = <<>> THEN 0
    ELSE 10 * int_of(SubSeq(ds, 1, Len(ds) - 1)) + digit_value(ds[Len(ds)])

\* the longest run of digits of s that starts at position i
RECURSIVE digit_run(_, _)
digit_run(s, i) ==
    IF i <= Len(s) /\ IsDigit(s[i]) THEN <<s[i]>> \o digit_run(s, i + 1) ELSE <<>>

\* re.search(r"r=(\d+)", href): None, or group(1) of the leftmost match
search_r_digits(href) ==
    LET starts == {i \in 1..Len(href) :
                      /\ occurs_at(<<"r", "=">>, href, i)
                      /\ i + 2 <= Len(href)
                      /\ IsDigit(href[i + 2])}
    IN  IF starts = {} THEN None
        ELSE LET first == CHOOSE i \in starts : \A j \in starts : i <= j
             IN  Str(digit_run(href, first + 2))

\* Mutant: a ratio equal to the threshold is rejected.
accepts_strict(r, threshold) == ratio_gt(r, threshold)

\* if ratio >= threshold
accepts(r, threshold) == ratio_ge(r, threshold)

\* soup.find_all("a", href=re.compile(r"race\.php\?r=")): the positions, in
\* document order, of the anchors whose href the pattern matches.
RECURSIVE find_all(_, _)
find_all(doc, i) ==
    IF i > Len(doc) THEN <<>>
    ELSE IF href_matches(doc[i].href) THEN <<i>> \o find_all(doc, i + 1)
    ELSE find_all(doc, i + 1)

\* The loop of search_race_id over the selected anchors: the list matches.
\* An entry is the tuple (race_id, title, ratio) of the code, with pos, the
\* position in the document of the anchor it was recorded for.
RECURSIVE collect_matches(_, _, _, _)
collect_matches(norm_query, doc, selected, threshold) ==
    IF selected = <<>> THEN <<>>
    ELSE LET a == doc[Head(selected)]
             rest == collect_matches(norm_query, doc, Tail(selected), threshold)
         IN  IF a.title = None \/ a.title.v = <<>> THEN rest
             ELSE LET r == ratio(norm_query, normalize(a.title.v))
                      m == search_r_digits(a.href)
                  IN  IF accepts(r, threshold) /\ m # None
                      THEN <<[id |-> int_of(m.v), title |-> a.title.v,
                              ratio |-> r, pos |-> Head(selected)]>> \o rest
                      ELSE rest

\* Mutant: a later candidate replaces the best one when its ratio is equal.
RECURSIVE max_by_ratio_last(_, _)
max_by_ratio_last(best, rest) ==
    IF rest = <<>> THEN best
    ELSE IF ratio_ge(Head(rest).ratio, best.ratio)
         THEN max_by_ratio_last(Head(rest), Tail(rest))
         ELSE max_by_ratio_last(best, Tail(rest))

\* max(matches, key=lambda x: x[2]): the running best is replaced only by a
\* strictly greater key.
RECURSIVE max_by_ratio(_, _)
max_by_ratio(best, rest) ==
    IF rest = <<>> THEN best
    ELSE IF ratio_gt(Head(rest).ratio, best.ratio)
         THEN max_by_ratio(Head(rest), Tail(rest))
         ELSE max_by_ratio(best, Tail(rest))

\* threshold=0.7
DefaultThreshold == <<7, 10>>

\* search_race_id(query, html, threshold): the list matches at the return,
\* and the value returned, IntV(id) or None.
search_race_id(q, doc, threshold) ==
    LET matches == collect_matches(normalize(q), doc, find_all(doc, 1), threshold)
    IN  [matches |-> matches,
         ret |-> IF matches # <<>>
                 THEN IntV(max_by_ratio(Head(matches), Tail(matches)).id)
                 ELSE None]

\* ------------------------------------------------------------ outcomes
\* How a call ends: it returns a value or raises an exception.
Return(v) == [kind |-> "return", val |-> v]
Raise(e) == [kind |-> "raise", exc |-> e]

\* A parsed page: the document's <a href=...> elements.
Page(doc) == [t |-> "html", anchors |-> doc]

\* The exceptions the fetch layer is exercised with.  ConnectionError and
\* TypeError derive from Exception; KeyboardInterrupt (the user interrupts
\* the blocking fetch) derives from BaseException only.
FetchErrors == {"ConnectionError", "KeyboardInterrupt"}

\* Mutant: except ConnectionError
is_Exception_narrow(e) == e = "ConnectionError"

\* except Exception: whether the handler's class matches the exception
is_Exception(e) == e \in {"ConnectionError", "TypeError"}

\* Mutant: if race_id: (the id 0 is falsy)
has_race_id_truthy(race_id) == race_id # None /\ race_id.v # 0

\* if race_id is not None
has_race_id(race_id) == race_id # None

\* race_id = search_race_id(query, html) inside Race.search: BeautifulSoup
\* raises TypeError on a page that is None, not markup.
resolve(q, page) ==
    IF page = None THEN Raise("TypeError")
    ELSE Return(search_race_id(q, page.anchors, DefaultThreshold).ret)

\* fc.search_race(query, year, category), as a record of the fetch log
search_race_fetch(q, year, category) ==
    [fn |-> "search_race", id |-> None, params |-> [query |-> Str(q), year |-> year, category |-> Str(category)]]

\* the message Race.search prints from its handler
SearchError == "Error in Race.search"

\* Mutant: the handler fetches the search page a second time.
Race_search_retry(q, year, category, fetched) ==
    LET once == <<search_race_fetch(q, year, category)>>
    IN  [op |-> "search", recv |-> None,
         args |-> [query |-> Str(q), year |-> year, category |-> Str(category)],
         locals |-> [fetched |-> fetched],
         fetches |-> IF fetched.kind = "raise" THEN once \o once ELSE once,
         prints |-> <<>>,
         outcome |-> Return(<<>>)]

\* Race.search(query, year, category), the fetch ending as `fetched`: the
\* record of the call (locals.fetched is how fc.search_race ended).
Race_search(q, year, category, fetched) ==
    LET tried == IF fetched.kind = "raise" THEN fetched ELSE resolve(q, fetched.val)
        caught == tried.kind = "raise" /\ is_Exception(tried.exc)
    IN  [op |-> "search", recv |-> None,
         args |-> [query |-> Str(q), year |-> year, category |-> Str(category)],
         locals |-> [fetched |-> fetched],
         fetches |-> <<search_race_fetch(q, year, category)>>,
         prints |-> IF caught THEN <<SearchError>> ELSE <<>>,
         outcome |->
            IF tried.kind = "raise"
            THEN IF caught THEN Return(<<>>) ELSE tried
            ELSE IF has_race_id(tried.val)
                 THEN Return(<<[id |-> tried.val.v, name |-> q, country |-> <<>>,
                                date |-> <<>>, category |-> category]>>)
                 ELSE Return(<<>>)]

\* ------------------------------------------------------- search inputs
MaxAnchors == 2

RiderPhp == <<"r", "i", "d", "e", "r", ".", "p", "h", "p", "?", "r", "=">>

\* race.php?r=14&y=2025, race.php?r=0, race.php?r=&yr=2025,
\* race.php?r=abc&nr=7, race.php?r= and rider.php?r=9
Hrefs ==
    { RacePhp \o <<"1", "4", "&", "y", "=", "2", "0", "2", "5">>,
      RacePhp \o <<"0">>,
      RacePhp \o <<"&", "y", "r", "=", "2", "0", "2", "5">>,
      RacePhp \o <<"a", "b", "c", "&", "n", "r", "=", "7">>,
      RacePhp,
      RiderPhp \o <<"9">> }

\* no title attribute, title="", and the titles "A b" and "ab"
Titles ==
    { None, Str(<<>>), Str(<<"A", " ", "b">>), Str(<<"a", "b">>) }

Anchors == [href : Hrefs, title : Titles]

RECURSIVE DocsUpTo(_)
DocsUpTo(n) ==
    IF n = 0 THEN {<<>>}
    ELSE LET shorter == DocsUpTo(n - 1)
         IN  shorter \cup {Append(d, a) : d \in {x \in shorter : Len(x) = n - 1}, a \in Anchors}

\* the queries "a-B" and "b"
Queries == { <<"a", "-", "B">>, <<"b">> }

\* the thresholds 0.7, 0.8 and 1.0
Thresholds == { DefaultThreshold, <<4, 5>>, <<1, 1>> }

\* the (year, category) of a search: the defaults, and 2025 with "2"
SearchArgs == { <<None, <<"1">>>>, <<IntV(2025), <<"2">>>> }

\* ------------------------------------------------ search specification
InitSearch ==
    /\ query \in Queries
    /\ html \in DocsUpTo(MaxAnchors)
    /\ call = None
    /\ text = <<>>
    /\ norm1 = None
    /\ norm2 = None
    /\ npc = "start"
    /\ race = None
    /\ editions = <<>>
    /\ born = None

\* a direct call search_race_id(query, html, threshold)
CallSearchRaceId ==
    \E threshold \in Thresholds :
        LET r == search_race_id(query, html, threshold)
        IN  /\ call' = [op |-> "search_race_id", recv |-> None,
                        args |-> [query |-> Str(query), threshold |-> threshold],
                        locals |-> [matches |-> r.matches],
                        fetches |-> <<>>, prints |-> <<>>,
                        outcome |-> Return(r.ret)]
            /\ UNCHANGED <<query, html>>
            /\ UNCHANGED nvars
            /\ UNCHANGED fvars

\* what fc.search_race may do: return the page, return None, or raise
SearchFetchOutcomes ==
    {Return(Page(html)), Return(None)} \cup {Raise(e) : e \in FetchErrors}

\* a call Race.search(query, year, category)
CallRaceSearch ==
    \E yc \in SearchArgs, fetched \in SearchFetchOutcomes :
        /\ call' = Race_search(query, yc[1], yc[2], fetched)
        /\ UNCHANGED <<query, html>>
        /\ UNCHANGED nvars
        /\ UNCHANGED fvars

\* Both functions are stateless: a behaviour is one call on the drawn inputs.
SearchRaceIdOnce == call = None /\ CallSearchRaceId

RaceSearchOnce == call = None /\ CallRaceSearch

NextSearch == SearchRaceIdOnce \/ RaceSearchOnce

SpecSearch == InitSearch /\ [][NextSearch]_vars

\* the anchors search_race_id scores: selected by find_all, with a title
\* that is neither missing nor empty
Scored(i) ==
    /\ href_matches(html[i].href)
    /\ html[i].title # None
    /\ html[i].title.v # <<>>

\* the similarity ratio of anchor i's title to the query
RatioOf(i) == ratio(normalize(query), normalize(html[i].title.v))

IsSearchRaceIdCall == call # None /\ call.op = "search_race_id"
IsSearchCall == call # None /\ call.op = "search"

\* C1: when at least one candidate is recorded, search_race_id returns the id
\* of the recorded candidate with the maximum similarity ratio, and of several
\* candidates sharing the maximum, the one first in document order.
C1_BestCandidateFirstOnTies ==
    (IsSearchRaceIdCall /\ call.locals.matches # <<>>) =>
        LET ms == call.locals.matches
            best == {i \in 1..Len(ms) :
                        \A j \in 1..Len(ms) : ratio_ge(ms[i].ratio, ms[j].ratio)}
            first == CHOOSE i \in best : \A j \in best : ms[i].pos <= ms[j].pos
        IN  call.outcome = Return(IntV(ms[first].id))

\* C1 witness: two candidates with different ids share the maximum ratio and
\* the id of the first one was returned.
C1_Witness ==
    /\ IsSearchRaceIdCall
    /\ Len(call.locals.matches) = 2
    /\ ratio_eq(call.locals.matches[1].ratio, call.locals.matches[2].ratio)
    /\ call.locals.matches[1].id # call.locals.matches[2].id
    /\ call.locals.matches[1].pos < call.locals.matches[2].pos
    /\ call.outcome = Return(IntV(call.locals.matches[1].id))

\* whether candidate i of the document is in the list matches
Recorded(i) == \E k \in 1..Len(call.locals.matches) : call.locals.matches[k].pos = i

\* The parts of C2 about None: nothing recorded, no anchor with race.php?r=
\* in its href, or every scored anchor strictly below the threshold.
ReturnsNoneWhenNothingRecorded ==
    /\ call.locals.matches = <<>> => call.outcome = Return(None)
    /\ (\A i \in 1..Len(html) : ~href_matches(html[i].href)) => call.outcome = Return(None)
    /\ (\A i \in 1..Len(html) : Scored(i) => ~ratio_ge(RatioOf(i), call.args.threshold))
            => call.outcome = Return(None)

\* C2 as stated: search_race_id returns None whenever no candidate is
\* recorded (no anchor with race.php?r=, or every ratio strictly below the
\* threshold), and every anchor whose ratio equals the threshold exactly is
\* accepted as a candidate.
C2_AsStated ==
    IsSearchRaceIdCall =>
        /\ ReturnsNoneWhenNothingRecorded
        /\ \A i \in 1..Len(html) :
              (Scored(i) /\ ratio_eq(RatioOf(i), call.args.threshold)) => Recorded(i)

\* whether the href has the text r= directly followed by a digit somewhere
HasRDigit(href) ==
    \E k \in 1..(Len(href) - 2) :
        href[k] = "r" /\ href[k + 1] = "=" /\ IsDigit(href[k + 2])

\* C2 amended: search_race_id returns None whenever no candidate is recorded
\* (no anchor with race.php?r=, or every ratio strictly below the threshold),
\* and an anchor whose ratio equals the threshold exactly is accepted as a
\* candidate when its href has r= directly followed by a digit.
C2_NoneOrThresholdInclusive ==
    IsSearchRaceIdCall =>
        /\ ReturnsNoneWhenNothingRecorded
        /\ \A i \in 1..Len(html) :
              (Scored(i) /\ ratio_eq(RatioOf(i), call.args.threshold) /\ HasRDigit(html[i].href))
                  => (Recorded(i) /\ call.outcome # Return(None))

\* C2 witness: the only scored anchor has a ratio equal to a threshold below
\* 1.0 and was recorded, and its id returned.
C2_Witness ==
    /\ IsSearchRaceIdCall
    /\ call.args.threshold = <<4, 5>>
    /\ Len(call.locals.matches) = 1
    /\ ratio_eq(call.locals.matches[1].ratio, call.args.threshold)
    /\ call.outcome = Return(IntV(call.locals.matches[1].id))

\* the digits that directly follow the first race.php?r= of the href
r_parameter(href) ==
    LET at == CHOOSE i \in 1..Len(href) :
                  /\ occurs_at(RacePhp, href, i)
                  /\ \A j \in 1..(i - 1) : ~occurs_at(RacePhp, href, j)
    IN  digit_run(href, at + Len(RacePhp))

\* C10: every id recorded for an anchor is the integer formed by the digits
\* that directly follow race.php?r= in that anchor's href, and an anchor with
\* no digit directly after race.php?r= is never recorded.
C10_IdIsTheRParameter ==
    IsSearchRaceIdCall =>
        \A k \in 1..Len(call.locals.matches) :
            LET m == call.locals.matches[k]
                digits == r_parameter(html[m.pos].href)
            IN  digits # <<>> /\ m.id = int_of(digits)

\* C3 as stated: Race.search never raises, and when the fetch or the id
\* resolution raised any exception it returns the empty list after logging.
C3_AsStated ==
    IsSearchCall =>
        /\ call.outcome.kind = "return"
        /\ (call.locals.fetched.kind = "raise" \/ call.locals.fetched = Return(None))
              => (call.outcome = Return(<<>>) /\ call.prints = <<SearchError>>)

\* C3 amended: when the fetch or the id resolution raised an exception that
\* derives from Exception (here ConnectionError from the fetch, TypeError
\* from the resolution), Race.search logs once and returns the empty list.
C3_ExceptionGivesEmptyList ==
    IsSearchCall =>
        ((\/ call.locals.fetched = Raise("ConnectionError")
          \/ call.locals.fetched = Return(None))
            => (call.outcome = Return(<<>>) /\ call.prints = <<SearchError>>))

\* C3 witness: the id resolution raised and the call returned the empty list.
C3_Witness ==
    /\ IsSearchCall
    /\ call.locals.fetched = Return(None)
    /\ call.outcome = Return(<<>>)
    /\ call.prints = <<SearchError>>

FirstCyclingObject_init(ID) == [ID |-> ID]

\* RaceEdition.__init__(self, race_id, year): the base constructor, then
\* self.year = year
RaceEdition_init(race_id, year) == [ID |-> FirstCyclingObject_init(race_id).ID, year |-> year]

\* fc.get_race_endpoint(ID, **params), as a record of the fetch log
get_race_endpoint(ID, params) ==
    [fn |-> "get_race_endpoint", id |-> IntV(ID), params |-> params]

\* Race._get_response(self, **kwargs)
Race_get_response(self, kwargs) == get_race_endpoint(self.ID, kwargs)

\* RaceEdition._get_response(self, **kwargs): y=self.year is added
RaceEdition_get_response(self, kwargs) ==
    get_race_endpoint(self.ID, [y |-> IntV(self.year)] @@ kwargs)

\* FirstCyclingObject._get_endpoint(endpoint, **kwargs): one call of
\* self._get_response(**kwargs), whose response the endpoint class wraps; an
\* exception of the fetch propagates.  `request` is that one call, `fetched`
\* how it ended.
get_endpoint(op, recv, args, prints, endpoint, request, fetched) ==
    [op |-> op, recv |-> recv, args |-> args,
     locals |-> [fetched |-> fetched],
     fetches |-> <<request>>,
     prints |-> prints,
     outcome |-> IF fetched.kind = "raise" THEN fetched
                 ELSE Return([endpoint |-> endpoint, response |-> fetched.val])]

\* Classification['gc'].value
GC == 1

\* Mutant: the edition is built with the arguments swapped.
Race_edition_swapped(self, year) == RaceEdition_init(year, self.ID)

\* Race.edition(year): the new RaceEdition
Race_edition(self, year) == RaceEdition_init(self.ID, year)

\* Race.overview(classification_num)
Race_overview(self, classification_num, fetched) ==
    get_endpoint("overview", IntV(0), [classification_num |-> classification_num], <<>>,
                 "RaceEndpoint", Race_get_response(self, [k |-> classification_num]), fetched)

\* Race.victory_table()
Race_victory_table(self, fetched) ==
    get_endpoint("victory_table", IntV(0), <<>>, <<>>,
                 "RaceVictoryTable", Race_get_response(self, [k |-> Str(<<"W">>)]), fetched)

\* Race.year_by_year(classification_num)
Race_year_by_year(self, classification_num, fetched) ==
    get_endpoint("year_by_year", IntV(0), [classification_num |-> classification_num], <<>>,
                 "RaceEndpoint",
                 Race_get_response(self, [k |-> Str(<<"X">>), j |-> classification_num]), fetched)

\* Race.youngest_oldest_winners()
Race_youngest_oldest_winners(self, fetched) ==
    get_endpoint("youngest_oldest_winners", IntV(0), <<>>, <<>>,
                 "RaceEndpoint", Race_get_response(self, [k |-> Str(<<"Y">>)]), fetched)

\* Race.stage_victories()
Race_stage_victories(self, fetched) ==
    get_endpoint("stage_victories", IntV(0), <<>>, <<>>,
                 "RaceStageVictories", Race_get_response(self, [k |-> Str(<<"Z">>)]), fetched)

\* the decimal digits of n >= 0
RECURSIVE digits_of(_)
digits_of(n) ==
    IF n < 10 THEN <<Digits[n + 1]>>
    ELSE digits_of(n \div 10) \o <<Digits[(n % 10) + 1]>>

\* zeros put before the digits ds to fill `width` characters
RECURSIVE zero_fill(_, _)
zero_fill(ds, width) ==
    IF Len(ds) >= width THEN ds ELSE zero_fill(<<"0">> \o ds, width)

\* Mutant: f'{stage_num}', no padding
format_plain(n) ==
    IF n < 0 THEN <<"-">> \o digits_of(0 - n) ELSE digits_of(n)

\* f'{stage_num:02}': the sign, if any, counts in the width of 2
format_02(n) ==
    IF n < 0 THEN <<"-">> \o zero_fill(digits_of(0 - n), 1)
    ELSE zero_fill(digits_of(n), 2)

\* the advisory RaceEdition.results prints
Warning == "Warning: results_table might show GC results."

\* Mutant: self.year > 2023
warns_after_2023(self, classification_num) ==
    self.year > 2023 /\ classification_num # None /\ classification_num # IntV(GC)

\* self.year >= 2023 and classification_num is not None and
\* classification_num != Classification['gc'].value
warns(self, classification_num) ==
    self.year >= 2023 /\ classification_num # None /\ classification_num # IntV(GC)

\* RaceEdition.results(classification_num, stage_num); recv is the position
\* of self among the editions
RaceEdition_results(recv, self, classification_num, stage_num, fetched) ==
    LET zero_padded_stage_num ==
            IF stage_num.t = "int" THEN Str(format_02(stage_num.v)) ELSE None
    IN  get_endpoint("results", IntV(recv),
                     [classification_num |-> classification_num, stage_num |-> stage_num],
                     IF warns(self, classification_num) THEN <<Warning>> ELSE <<>>,
                     "RaceEditionResults",
                     RaceEdition_get_response(self, [l |-> classification_num,
                                                     e |-> zero_padded_stage_num]),
                     fetched)

\* RaceEdition.stage_profiles()
RaceEdition_stage_profiles(recv, self, fetched) ==
    get_endpoint("stage_profiles", IntV(recv), <<>>, <<>>, "RaceEndpoint",
                 RaceEdition_get_response(self, [e |-> Str(<<"a", "l", "l">>)]), fetched)

\* RaceEdition.startlist()
RaceEdition_startlist(recv, self, fetched) ==
    get_endpoint("startlist", IntV(recv), <<>>, <<>>, "RaceEndpoint",
                 RaceEdition_get_response(self, [k |-> IntV(8)]), fetched)

\* RaceEdition.startlist_extended()
RaceEdition_startlist_extended(recv, self, fetched) ==
    get_endpoint("startlist_extended", IntV(recv), <<>>, <<>>, "RaceEndpoint",
                 RaceEdition_get_response(self, [k |-> IntV(9)]), fetched)

\* ------------------------------------------------------- facade inputs
MaxEditions == 1

RaceIDs == {4, 14}
Years == {2022, 2023, 2025}
ClassificationNums == {None, IntV(GC), IntV(3)}

\* stage_num: absent, the integers 0, 7, 12 and -1, and the string "3"
StageNums == {None, IntV(0), IntV(7), IntV(12), IntV(-1), Str(<<"3">>)}

\* what fc.get_race_endpoint may do: return the response or raise
EndpointFetchOutcomes == {Return("response"), Raise("ConnectionError")}

\* the search pages of the facade specification: no anchor, and one anchor
\* <a href="race.php?r=0" title="A b">
FacadePages ==
    { <<>>, <<[href |-> RacePhp \o <<"0">>, title |-> Str(<<"A", " ", "b">>)]>> }

\* ------------------------------------------------ facade specification
InitFacade ==
    /\ race \in {FirstCyclingObject_init(id) : id \in RaceIDs}
    /\ editions = <<>>
    /\ born = [race |-> race, editions |-> <<>>]
    /\ query = <<"a", "-", "B">>
    /\ html \in FacadePages
    /\ call = None
    /\ text = <<>>
    /\ norm1 = None
    /\ norm2 = None
    /\ npc = "start"

Frame ==
    /\ UNCHANGED <<query, html>>
    /\ UNCHANGED nvars

\* race.edition(year)
CallEdition ==
    \E year \in Years :
        LET made == Race_edition(race, year)
        IN  /\ Len(editions) < MaxEditions
            /\ editions' = Append(editions, made)
            /\ born' = [born EXCEPT !.editions = Append(born.editions, made)]
            /\ call' = [op |-> "edition", recv |-> IntV(0), args |-> [year |-> IntV(year)],
                        locals |-> None, fetches |-> <<>>, prints |-> <<>>,
                        outcome |-> Return(made)]
            /\ UNCHANGED race
            /\ Frame

CallOverview ==
    \E cn \in ClassificationNums, fetched \in EndpointFetchOutcomes :
        /\ call' = Race_overview(race, cn, fetched)
        /\ UNCHANGED fvars
        /\ Frame

CallVictoryTable ==
    \E fetched \in EndpointFetchOutcomes :
        /\ call' = Race_victory_table(race, fetched)
        /\ UNCHANGED fvars
        /\ Frame

CallYearByYear ==
    \E cn \in ClassificationNums, fetched \in EndpointFetchOutcomes :
        /\ call' = Race_year_by_year(race, cn, fetched)
        /\ UNCHANGED fvars
        /\ Frame

CallYoungestOldestWinners ==
    \E fetched \in EndpointFetchOutcomes :
        /\ call' = Race_youngest_oldest_winners(race, fetched)
        /\ UNCHANGED fvars
        /\ Frame

CallStageVictories ==
    \E fetched \in EndpointFetchOutcomes :
        /\ call' = Race_stage_victories(race, fetched)
        /\ UNCHANGED fvars
        /\ Frame

CallResults ==
    \E i \in 1..Len(editions), cn \in ClassificationNums, stage_num \in StageNums,
       fetched \in EndpointFetchOutcomes :
        /\ call' = RaceEdition_results(i, editions[i], cn, stage_num, fetched)
        /\ UNCHANGED fvars
        /\ Frame

CallStageProfiles ==
    \E i \in 1..Len(editions), fetched \in EndpointFetchOutcomes :
        /\ call' = RaceEdition_stage_profiles(i, editions[i], fetched)
        /\ UNCHANGED fvars
        /\ Frame

CallStartlist ==
    \E i \in 1..Len(editions), fetched \in EndpointFetchOutcomes :
        /\ call' = RaceEdition_startlist(i, editions[i], fetched)
        /\ UNCHANGED fvars
        /\ Frame

CallStartlistExtended ==
    \E i \in 1..Len(editions), fetched \in EndpointFetchOutcomes :
        /\ call' = RaceEdition_startlist_extended(i, editions[i], fetched)
        /\ UNCHANGED fvars
        /\ Frame

NextFacade ==
    \/ CallRaceSearch
    \/ CallEdition
    \/ CallOverview
    \/ CallVictoryTable
    \/ CallYearByYear
    \/ CallYoungestOldestWinners
    \/ CallStageVictories
    \/ CallResults
    \/ CallStageProfiles
    \/ CallStartlist
    \/ CallStartlistExtended

SpecFacade == InitFacade /\ [][NextFacade]_vars

IsResultsCall == call # None /\ call.op = "results"

AllDigits(s) == \A i \in 1..Len(s) : IsDigit(s[i])

\* s is the decimal numeral of n, with zeros before the digits only as far as
\* needed to make it 2 characters long
PaddedDecimal(s, n) ==
    /\ Len(s) >= 2
    /\ IF n >= 0
       THEN /\ AllDigits(s)
            /\ int_of(s) = n
            /\ Len(s) > 2 => s[1] # "0"
       ELSE /\ s[1] = "-"
            /\ AllDigits(Tail(s))
            /\ int_of(Tail(s)) = 0 - n
            /\ Len(s) > 2 => s[2] # "0"

\* C6: results(classification_num, stage_num) passes to the delegated fetch
\* e, the stage number zero-padded to 2 characters (0 gives "00") when
\* stage_num is an integer and None when it is not, with l the
\* classification_num and y the edition's year.
C6_ResultsFetchParameters ==
    IsResultsCall =>
        /\ Len(call.fetches) = 1
        /\ LET p == call.fetches[1].params
               sn == call.args.stage_num
           IN  /\ DOMAIN p = {"y", "l", "e"}
               /\ p.l = call.args.classification_num
               /\ p.y = IntV(editions[call.recv.v].year)
               /\ call.fetches[1].id = IntV(editions[call.recv.v].ID)
               /\ IF sn.t = "int"
                  THEN p.e.t = "str" /\ PaddedDecimal(p.e.v, sn.v)
                  ELSE p.e = None
               /\ sn = IntV(0) => p.e = Str(<<"0", "0">>)

\* C6 witness: results(1, 0) passed e = "00", and l = 1.
C6_Witness ==
    /\ IsResultsCall
    /\ call.args.stage_num = IntV(0)
    /\ call.args.classification_num = IntV(1)
    /\ call.fetches[1].params.e = Str(<<"0", "0">>)
    /\ call.fetches[1].params.l = IntV(1)

\* C7: a call of results prints the advisory exactly once when the edition's
\* year is at least 2023 and classification_num is given and is not the GC
\* code, and not at all otherwise; either way it delegates the fetch once and
\* returns what the fetch gave, wrapped by the results endpoint.
C7_AdvisoryOnceForNonGCFrom2023 ==
    IsResultsCall =>
        LET year == editions[call.recv.v].year
            cn == call.args.classification_num
            non_gc == cn # None /\ cn.v # GC
        IN  /\ call.prints = IF year >= 2023 /\ non_gc THEN <<Warning>> ELSE <<>>
            /\ Len(call.fetches) = 1
            /\ call.locals.fetched.kind = "return" =>
                  call.outcome = Return([endpoint |-> "RaceEditionResults",
                                         response |-> call.locals.fetched.val])

\* C7 witness: an edition of 2023 was asked for classification 3: one
\* advisory, and the result returned.
C7_Witness ==
    /\ IsResultsCall
    /\ editions[call.recv.v].year = 2023
    /\ call.args.classification_num = IntV(3)
    /\ call.prints = <<Warning>>
    /\ call.outcome.kind = "return"

\* C8: every public operation of Race and RaceEdition performs at most one
\* network fetch per call, on the error path of search too.
C8_AtMostOneFetchPerCall ==
    call # None => Len(call.fetches) <= 1

\* C8 witness: the fetch of a search raised, the handler ran, and the call
\* made that one fetch only.
C8_Witness ==
    /\ IsSearchCall
    /\ call.locals.fetched = Raise("ConnectionError")
    /\ call.outcome = Return(<<>>)
    /\ Len(call.fetches) = 1

\* C9: after any sequence of operations, fetches that raise included, the
\* Race's ID and every RaceEdition's ID and year are the values given at
\* construction, and edition(year) yields a RaceEdition with the Race's ID
\* and the given year.
C9_IdentityFieldsUnchanged ==
    /\ race = born.race
    /\ editions = born.editions
    /\ \A i \in 1..Len(editions) : editions[i].ID = race.ID
    /\ (call # None /\ call.op = "edition") =>
          /\ call.outcome.val = editions[Len(editions)]
          /\ call.outcome.val.ID = race.ID
          /\ call.outcome.val.year = call.args.year.v

\* C9 witness: results was called on an edition made by edition(2025), its
\* fetch raised, and the edition still has the Race's ID and the year 2025.
C9_Witness ==
    /\ IsResultsCall
    /\ call.outcome.kind = "raise"
    /\ editions[call.recv.v] = [ID |-> race.ID, year |-> 2025]

====
